---- MODULE Spec2Model ----
(***************************************************************************)
(* The realtime worker of aerioy/codextest: the room dispatcher (default   *)
(* fetch) and the per-room relay actor RoomDO with its two slots, host and *)
(* join.  Strings the code inspects character by character (the path, the  *)
(* Upgrade header) are sequences of one-character strings.                 *)
(***************************************************************************)
EXTENDS Integers, Sequences, FiniteSets, TLC

\* ------------------------------------------------------------------ bounds
MaxConns == 3     \* WebSocketPairs the rooms create in one behaviour
MaxMsgs  == 2     \* frames the clients send in one behaviour
MaxSteps == 6     \* events (requests, frames, drops, error and close events)

Null  == 0
Conns == 1 .. MaxConns

\* ------------------------------------------------------------- characters
LowerCase == <<"a","b","c","d","e","f","g","h","i","j","k","l","m",
               "n","o","p","q","r","s","t","u","v","w","x","y","z">>
UpperCase == <<"A","B","C","D","E","F","G","H","I","J","K","L","M",
               "N","O","P","Q","R","S","T","U","V","W","X","Y","Z">>
Digits    == {"0","1","2","3","4","5","6","7","8","9"}

Range(s) == { s[i] : i \in DOMAIN s }

\* String.prototype.toUpperCase / toLowerCase, one character
UpperChar(ch) ==
  IF \E i \in DOMAIN LowerCase : LowerCase[i] = ch
  THEN UpperCase[CHOOSE i \in DOMAIN LowerCase : LowerCase[i] = ch]
  ELSE ch

LowerChar(ch) ==
  IF \E i \in DOMAIN UpperCase : UpperCase[i] = ch
  THEN LowerCase[CHOOSE i \in DOMAIN UpperCase : UpperCase[i] = ch]
  ELSE ch

\* a mutant of toUpperCase: the code is kept as typed
KeepCase(s) == s

toUpperCase(s) == [ i \in DOMAIN s |-> UpperChar(s[i]) ]

toLowerCase(s) == [ i \in DOMAIN s |-> LowerChar(s[i]) ]

\* ------------------------------------------------------------ the requests
\* url.pathname of the requests the clients make
PathLower   == <<"/","r","o","o","m","/","a","b","c","d">>
PathUpper   == <<"/","r","o","o","m","/","A","B","C","D">>
PathOther   == <<"/","r","o","o","m","/","W","x","_","9","-">>
PathShort   == <<"/","r","o","o","m","/","a","b","c">>
PathBadChar == <<"/","r","o","o","m","/","a","b","$","d">>
PathNested  == <<"/","r","o","o","m","/","a","b","c","d","/">>
PathLong    == <<"/","r","o","o","m","/","a","b","c","d","e","f","g","h","i","j",
                 "k","l","m","n","o","p","q","r","s","t","u">>
PathHealth  == <<"/","h","e","a","l","t","h">>

Paths == { PathLower, PathUpper, PathOther, PathShort, PathBadChar,
           PathNested, PathLong, PathHealth }

\* values of the Upgrade header; <<>> is a request without the header
UpgradeWs    == <<"w","e","b","s","o","c","k","e","t">>
UpgradeMixed == <<"W","e","b","S","o","c","k","e","t">>
UpgradeH2c   == <<"h","2","c">>
Upgrades     == { <<>>, UpgradeWs, UpgradeMixed, UpgradeH2c }

\* values of the Origin header ("" is a request without one) and of the
\* ALLOWED_ORIGIN variable ("" is unset, which the code reads as "*")
SiteOrigin  == "https://game.example"
OtherOrigin == "https://evil.example"
Origins     == { "", SiteOrigin, OtherOrigin }
AllowedOrigins == { "", SiteOrigin }

\* --------------------------------------------------------- the dispatcher
RoomPrefix == <<"/","r","o","o","m","/">>
CodeChars  == Range(LowerCase) \cup Range(UpperCase) \cup Digits \cup {"_","-"}
MinCodeLen == 4
MaxCodeLen == 20

\* the capture group of /^\/room\/([A-Za-z0-9_-]{4,20})$/, or <<>> (no match)
RoomMatch(path) ==
  IF /\ Len(path) > Len(RoomPrefix)
     /\ SubSeq(path, 1, Len(RoomPrefix)) = RoomPrefix
  THEN LET code == SubSeq(path, Len(RoomPrefix) + 1, Len(path))
       IN  IF /\ Len(code) >= MinCodeLen
              /\ Len(code) <= MaxCodeLen
              /\ \A i \in DOMAIN code : code[i] \in CodeChars
           THEN code ELSE <<>>
  ELSE <<>>

\* request.headers.get("Upgrade")?.toLowerCase() !== "websocket"
NotWebsocket(upgrade) == toLowerCase(upgrade) # UpgradeWs

\* env.ALLOWED_ORIGIN || "*"
Allowed(env) == IF env = "" THEN "*" ELSE env

\* a mutant of the origin check: the Origin header is not looked at
OriginNotChecked(env, origin) == FALSE

\* allowed !== "*" && origin !== allowed
Forbidden(env, origin) == Allowed(env) # "*" /\ origin # Allowed(env)

\* m[1].toUpperCase(): the name of the durable object
RoomCode(path) == toUpperCase(RoomMatch(path))

\* url.pathname.split("/").pop() || "": what follows the last slash
LastSegment(path) ==
  LET slashes == { i \in DOMAIN path : path[i] = "/" }
  IN  IF slashes = {} THEN path
      ELSE LET k == CHOOSE i \in slashes : \A j \in slashes : j <= i
           IN  SubSeq(path, k + 1, Len(path))

\* the room of the ready message
RoomName(path) == toUpperCase(LastSegment(path))

\* the durable objects the requests can name
Rooms == { RoomCode(p) : p \in { q \in Paths : RoomMatch(q) # <<>> } }


\* ------------------------------------------------------------- the frames
\* A frame is its framing and its content; from and seq are not on the wire:
\* they name the client frame a forwarded frame comes from (0: the room's own).
Frame(framing, content, c, k) ==
  [ frame |-> framing, data |-> content, from |-> c, seq |-> k ]

\* JSON.stringify({ t: "ready", role, room })
Ready(r, name) == Frame("text", <<"ready", r, name>>, Null, 0)

\* JSON.stringify({ t: "peer", state: "joined" })
PeerJoined == Frame("text", <<"peer", "joined">>, Null, 0)

\* JSON.stringify({ t: "peer", state: "left" })
PeerLeft == Frame("text", <<"peer", "left">>, Null, 0)

\* what the clients send: a text frame and a binary frame (two bytes)
TextHello  == [ frame |-> "text",   data |-> <<"hello">> ]
BinaryBlob == [ frame |-> "binary", data |-> <<"0x01", "0x02">> ]
Payloads   == { TextHello, BinaryBlob }

\* a mutant of the payload coercion: every frame is passed through as it came
PassThrough(evt) == [ frame |-> evt.frame, data |-> evt.data ]

\* typeof evt.data === "string" ? evt.data : String(evt.data), then send():
\* a string goes out as a text frame, and String(ArrayBuffer) is the text
\* "[object ArrayBuffer]"
Payload(evt) ==
  IF evt.frame = "text"
  THEN [ frame |-> "text", data |-> evt.data ]
  ELSE [ frame |-> "text", data |-> <<"[object ArrayBuffer]">> ]

\* ---------------------------------------------------------------- the state
VARIABLES
  env,      \* env.ALLOWED_ORIGIN ("" when unset)
  host,     \* RoomDO.host of every room: a connection or Null
  join,     \* RoomDO.join of every room: a connection or Null
  st,       \* every server socket: "free" (not created), "open", "closing"
            \* (the transport is gone, no event dispatched yet), "errored"
            \* (error dispatched, close to come), "closed" (close dispatched)
  self,     \* the room (durable object) whose fetch created the socket
  role,     \* the role constant its listeners close over
  inbox,    \* frames the room's send() put on the socket, oldest first
  sent,     \* the client frames that reached a message listener, in order
  dropped,  \* the ones (by index in sent) that found the other slot empty
  steps,    \* events so far
  last,     \* the latest step: operation, socket, HTTP status, send() calls
  turn      \* the TURN token worker: its Env, its latest request and response

vars == << steps, env, host, join, st, self, role, inbox, sent, dropped, last,
          turn >>

NoRoom == <<>>

\* the TURN token worker is another deployment: the rooms never touch it
NoTurn == [ cfg |-> <<>>, req |-> <<>>, res |-> <<>> ]

Step(op, c, status, r, log) ==
  [ op |-> op, conn |-> c, status |-> status, room |-> r, log |-> log,
    path |-> <<>> ]

\* the step of an accepted request, with the pathname the client asked for
Upgraded(c, r, path, log) ==
  [ Step("fetch", c, 101, r, log) EXCEPT !.path = path ]

RoomsInit ==
  /\ env \in AllowedOrigins
  /\ host = [ r \in Rooms |-> Null ]
  /\ join = [ r \in Rooms |-> Null ]
  /\ st = [ c \in Conns |-> "free" ]
  /\ self = [ c \in Conns |-> NoRoom ]
  /\ role = [ c \in Conns |-> "none" ]
  /\ inbox = [ c \in Conns |-> <<>> ]
  /\ sent = <<>>
  /\ steps = 0
  /\ dropped = {}
  /\ last = Step("init", Null, 0, NoRoom, <<>>)

Init == RoomsInit /\ turn = NoTurn

\* one more event
Tick == steps < MaxSteps /\ steps' = steps + 1

\* ------------------------------------------------------------------ send()
\* WebSocket.send on a server socket: it reaches the client when the socket
\* is open and throws otherwise
Throws(status, target) == status[target] # "open"

\* a mutant of send(): the newest frame overtakes the ones sent before it
SendNewestFirst(box, status, target, frame) ==
  IF Throws(status, target) THEN box
  ELSE [ box EXCEPT ![target] = <<frame>> \o @ ]

SendTo(box, status, target, frame) ==
  IF Throws(status, target) THEN box
  ELSE [ box EXCEPT ![target] = Append(@, frame) ]

\* ----------------------------------------------------------------- cleanup
\* a mutant of cleanup: the slot is emptied without comparing it to server
CleanupAnyOccupant(c, rl, h, j, box, status) ==
  LET h2 == IF rl = "host" THEN Null ELSE h
      j2 == IF rl = "join" THEN Null ELSE j
      peer == IF rl = "host" THEN j2 ELSE h2
  IN  [ host |-> h2, join |-> j2,
        inbox |-> IF peer # Null THEN SendTo(box, status, peer, PeerLeft) ELSE box,
        log |-> IF peer # Null THEN << <<peer, PeerLeft>> >> ELSE <<>> ]

\* a mutant of cleanup: the slot is left as it is
CleanupKeepsSlot(c, rl, h, j, box, status) ==
  LET peer == IF rl = "host" THEN j ELSE h
  IN  [ host |-> h, join |-> j,
        inbox |-> IF peer # Null THEN SendTo(box, status, peer, PeerLeft) ELSE box,
        log |-> IF peer # Null THEN << <<peer, PeerLeft>> >> ELSE <<>> ]

\* a mutant of cleanup: both slots are emptied
CleanupBothSlots(c, rl, h, j, box, status) ==
  [ host |-> Null, join |-> Null, inbox |-> box, log |-> <<>> ]

\* a mutant of cleanup: the peer is not told
CleanupSilent(c, rl, h, j, box, status) ==
  [ host |-> IF rl = "host" /\ h = c THEN Null ELSE h,
    join |-> IF rl = "join" /\ j = c THEN Null ELSE j,
    inbox |-> box, log |-> <<>> ]

\* cleanup of socket c with role rl in a room whose slots are h and j
cleanup(c, rl, h, j, box, status) ==
  LET h2 == IF rl = "host" /\ h = c THEN Null ELSE h
      j2 == IF rl = "join" /\ j = c THEN Null ELSE j
      peer == IF rl = "host" THEN j2 ELSE h2
  IN  [ host |-> h2, join |-> j2,
        inbox |-> IF peer # Null THEN SendTo(box, status, peer, PeerLeft) ELSE box,
        log |-> IF peer # Null THEN << <<peer, PeerLeft>> >> ELSE <<>> ]

\* ----------------------------------------------------------- RoomDO.fetch
\* a mutant of the role choice: the second and later sockets are all "join"
RoleSecondIsJoin(h, j) == IF h = Null /\ j = Null THEN "host" ELSE "join"

\* a mutant of the role choice: the slots are tested the other way round
RoleJoinFirst(h, j) ==
  IF j # Null THEN (IF h # Null THEN "spectator" ELSE "host") ELSE "join"

\* a mutant of the role choice: a full room is not refused
RoleNeverSpectator(h, j) == IF h # Null THEN "join" ELSE "host"

\* this.host ? (this.join ? "spectator" : "join") : "host"
RoleFor(h, j) ==
  IF h # Null THEN (IF j # Null THEN "spectator" ELSE "join") ELSE "host"

\* the socket of the next WebSocketPair
NextConn == CHOOSE c \in Conns : st[c] = "free" /\ \A d \in Conns : d < c => st[d] # "free"

\* a mutant of the presence notice: only the host is told
JoinedHostOnly(h, j, box, status) ==
  IF h # Null /\ j # Null
  THEN [ inbox |-> SendTo(box, status, h, PeerJoined),
         log |-> << <<h, PeerJoined>> >> ]
  ELSE [ inbox |-> box, log |-> <<>> ]

\* a mutant of the presence notice: sent whenever a socket is accepted
JoinedAlways(h, j, box, status) ==
  LET b1 == IF h # Null THEN SendTo(box, status, h, PeerJoined) ELSE box
      b2 == IF j # Null THEN SendTo(b1, status, j, PeerJoined) ELSE b1
  IN  [ inbox |-> b2,
        log |-> (IF h # Null THEN << <<h, PeerJoined>> >> ELSE <<>>)
                \o (IF j # Null THEN << <<j, PeerJoined>> >> ELSE <<>>) ]

\* if (this.host && this.join) { host.send(joined); join.send(joined) },
\* each send in its own try/catch
NotifyJoined(h, j, box, status) ==
  IF h # Null /\ j # Null
  THEN [ inbox |-> SendTo(SendTo(box, status, h, PeerJoined), status, j, PeerJoined),
         log |-> << <<h, PeerJoined>>, <<j, PeerJoined>> >> ]
  ELSE [ inbox |-> box, log |-> <<>> ]

\* The functions of the request, tabulated once over the requests of the model
MatchOf  == [ p \in Paths |-> RoomMatch(p) ]
CodeOf   == [ p \in Paths |-> RoomCode(p) ]
NameOf   == [ p \in Paths |-> RoomName(p) ]
NotWsOf  == [ u \in Upgrades |-> NotWebsocket(u) ]

\* RoomDO.fetch of room r for a request the dispatcher let through.  alive:
\* whether the accepted socket is open when ready is sent.
RoomFetch(r, path, upgrade, alive) ==
  IF NotWsOf[upgrade]
  THEN /\ last' = Step("fetch", Null, 426, r, <<>>)
       /\ UNCHANGED << host, join, st, self, role, inbox >>
  ELSE
  LET rl == RoleFor(host[r], join[r]) IN
  IF rl = "spectator"
  THEN /\ last' = Step("fetch", Null, 409, r, <<>>)
       /\ UNCHANGED << host, join, st, self, role, inbox >>
  ELSE
  /\ \E c \in Conns : st[c] = "free"
  /\ LET server == NextConn
         status == [ st EXCEPT ![server] = IF alive THEN "open" ELSE "closing" ]
         h1 == IF rl = "host" THEN server ELSE host[r]
         j1 == IF rl = "host" THEN join[r] ELSE server
         ready == Ready(rl, NameOf[path])
         greeted == SendTo(inbox, status, server, ready)
         joined == NotifyJoined(h1, j1, greeted, status)
         caught == cleanup(server, rl, h1, j1, inbox, status)
     IN  /\ st' = status
         /\ self' = [ self EXCEPT ![server] = r ]
         /\ role' = [ role EXCEPT ![server] = rl ]
         /\ IF Throws(status, server)
            THEN /\ host' = [ host EXCEPT ![r] = caught.host ]
                 /\ join' = [ join EXCEPT ![r] = caught.join ]
                 /\ inbox' = caught.inbox
                 /\ last' = Upgraded(server, r, path,
                                     << <<server, ready>> >> \o caught.log)
            ELSE /\ host' = [ host EXCEPT ![r] = h1 ]
                 /\ join' = [ join EXCEPT ![r] = j1 ]
                 /\ inbox' = joined.inbox
                 /\ last' = Upgraded(server, r, path,
                                     << <<server, ready>> >> \o joined.log)

\* ------------------------------------------------------ the default fetch
Fetch(path, upgrade, origin, alive) ==
  /\ Tick
  /\ UNCHANGED << env, sent, dropped, turn >>
  /\ IF path = PathHealth
     THEN /\ last' = Step("fetch", Null, 200, NoRoom, <<>>)
          /\ UNCHANGED << host, join, st, self, role, inbox >>
     ELSE IF MatchOf[path] = <<>>
     THEN /\ last' = Step("fetch", Null, 404, NoRoom, <<>>)
          /\ UNCHANGED << host, join, st, self, role, inbox >>
     ELSE IF NotWsOf[upgrade]
     THEN /\ last' = Step("fetch", Null, 426, NoRoom, <<>>)
          /\ UNCHANGED << host, join, st, self, role, inbox >>
     ELSE IF Forbidden(env, origin)
     THEN /\ last' = Step("fetch", Null, 403, NoRoom, <<>>)
          /\ UNCHANGED << host, join, st, self, role, inbox >>
     ELSE RoomFetch(CodeOf[path], path, upgrade, alive)

\* ---------------------------------------------------------- the transport
\* the transport of socket c goes away (the client closes, or the network
\* fails); the events for it are dispatched later
Drop(c) ==
  /\ Tick
  /\ st[c] = "open"
  /\ st' = [ st EXCEPT ![c] = "closing" ]
  /\ last' = Step("drop", c, 0, self[c], <<>>)
  /\ UNCHANGED << env, host, join, self, role, inbox, sent, dropped, turn >>

\* ----------------------------------------------------- the message listener
\* a mutant of the target choice: the frame goes back to the sender's slot
TargetOwnSlot(rl, h, j) == IF rl = "host" THEN h ELSE j

\* role === "host" ? this.join : this.host
Target(rl, h, j) == IF rl = "host" THEN j ELSE h

\* a mutant of the forwarding: the newest frame is put before the older ones
ForwardNewestFirst(box, status, target, evt, c) ==
  LET out == Frame(Payload(evt).frame, Payload(evt).data, c, evt.seq)
  IN  [ inbox |-> IF Throws(status, target) THEN box
                  ELSE [ box EXCEPT ![target] = <<out>> \o @ ],
        log |-> << <<target, out>> >> ]

\* a mutant of the forwarding: the sender gets a copy
ForwardWithEcho(box, status, target, evt, c) ==
  LET out == Frame(Payload(evt).frame, Payload(evt).data, c, evt.seq)
  IN  [ inbox |-> SendTo(SendTo(box, status, target, out), status, c, out),
        log |-> << <<target, out>>, <<c, out>> >> ]

\* a mutant of the forwarding: every other open socket of the worker, of
\* whichever room, gets the frame
ForwardToAll(box, status, target, evt, c) ==
  LET out == Frame(Payload(evt).frame, Payload(evt).data, c, evt.seq)
  IN  [ inbox |-> [ d \in Conns |->
                      IF d # c /\ status[d] = "open" THEN Append(box[d], out)
                      ELSE box[d] ],
        log |-> << <<target, out>> >> ]

\* a mutant of the forwarding: a frame that cannot be sent goes back to its
\* sender
ForwardOrBounce(box, status, target, evt, c) ==
  LET out == Frame(Payload(evt).frame, Payload(evt).data, c, evt.seq)
  IN  IF Throws(status, target)
      THEN [ inbox |-> SendTo(box, status, c, out),
             log |-> << <<target, out>>, <<c, out>> >> ]
      ELSE [ inbox |-> SendTo(box, status, target, out),
             log |-> << <<target, out>> >> ]

\* try { target.send(payload) } catch {}
Forward(box, status, target, evt, c) ==
  LET out == Frame(Payload(evt).frame, Payload(evt).data, c, evt.seq)
  IN  [ inbox |-> SendTo(box, status, target, out),
        log |-> << <<target, out>> >> ]

\* a mutant of the drop: a frame without a target goes back to its sender
DropEchoes(box, status, evt, c) ==
  LET out == Frame(Payload(evt).frame, Payload(evt).data, c, evt.seq)
  IN  [ inbox |-> SendTo(box, status, c, out), log |-> << <<c, out>> >> ]

\* if (!target) return
NoTarget(box, status, evt, c) == [ inbox |-> box, log |-> <<>> ]

\* the message listener of socket c for a frame with payload p
OnMessage(c, p) ==
  /\ LET evt == Frame(p.frame, p.data, c, Len(sent) + 1)
         r == self[c]
         target == Target(role[c], host[r], join[r])
         done == IF target = Null THEN NoTarget(inbox, st, evt, c)
                 ELSE Forward(inbox, st, target, evt, c)
     IN  /\ sent' = Append(sent, evt)
         /\ inbox' = done.inbox
         /\ dropped' = IF target = Null THEN dropped \cup { evt.seq } ELSE dropped
         /\ last' = Step("message", c, 0, r, done.log)
  /\ UNCHANGED << env, host, join, st, self, role, turn >>

\* the message event of socket c: a frame with payload p reaches the listener
\* (the events of one socket come in the order its client sent the frames)
Message(c, p) ==
  /\ Tick
  /\ st[c] = "open"
  /\ Len(sent) < MaxMsgs
  /\ OnMessage(c, p)

\* a message event of socket c that the runtime dispatches after the error
\* event of c and before its close event
LateMessage(c, p) ==
  /\ Tick
  /\ st[c] = "errored"
  /\ Len(sent) < MaxMsgs
  /\ OnMessage(c, p)

\* -------------------------------------------------- the close/error events
\* the listeners of socket c run cleanup; then is the state of c afterwards
Dispatch(c, op, then) ==
  LET r == self[c]
      done == cleanup(c, role[c], host[r], join[r], inbox, st)
  IN  /\ st' = [ st EXCEPT ![c] = then ]
      /\ host' = [ host EXCEPT ![r] = done.host ]
      /\ join' = [ join EXCEPT ![r] = done.join ]
      /\ inbox' = done.inbox
      /\ last' = Step(op, c, 0, r, done.log)
      /\ UNCHANGED << env, self, role, sent, dropped, turn >>

\* server.addEventListener("error", cleanup)
ErrorEvt(c) ==
  /\ Tick
  /\ st[c] = "closing"
  /\ Dispatch(c, "error", "errored")

\* server.addEventListener("close", cleanup)
CloseEvt(c) ==
  /\ Tick
  /\ st[c] \in { "closing", "errored" }
  /\ Dispatch(c, "close", "closed")

\* ------------------------------------------------------ the specifications
\* the requests the clients make
Request(path, upgrade, origin) ==
  [ path |-> path, upgrade |-> upgrade, origin |-> origin ]

Requests ==
  { Request(PathLower, UpgradeWs, SiteOrigin),
    Request(PathUpper, UpgradeMixed, SiteOrigin),
    Request(PathOther, UpgradeWs, SiteOrigin),
    Request(PathLower, UpgradeWs, OtherOrigin),
    Request(PathOther, UpgradeWs, ""),
    Request(PathLower, UpgradeH2c, SiteOrigin),
    Request(PathUpper, <<>>, SiteOrigin),
    Request(PathShort, UpgradeWs, SiteOrigin),
    Request(PathBadChar, UpgradeWs, SiteOrigin),
    Request(PathNested, UpgradeWs, SiteOrigin),
    Request(PathLong, UpgradeWs, SiteOrigin),
    Request(PathShort, <<>>, OtherOrigin),
    Request(PathLower, UpgradeH2c, OtherOrigin),
    Request(PathHealth, <<>>, "") }

Connect ==
  \E q \in Requests : Fetch(q.path, q.upgrade, q.origin, TRUE)

ConnectBroken ==
  \E q \in Requests : Fetch(q.path, q.upgrade, q.origin, FALSE)

Next ==
  \/ Connect
  \/ \E c \in Conns, p \in Payloads : Message(c, p)
  \/ \E c \in Conns : Drop(c)
  \/ \E c \in Conns : ErrorEvt(c)
  \/ \E c \in Conns : CloseEvt(c)

\* the rooms with sockets whose first send() succeeds
Spec == Init /\ [][Next]_vars

\* the same, and sockets that are unusable when ready is sent
NextFault == Next \/ ConnectBroken

SpecFault == Init /\ [][NextFault]_vars

\* the rooms under a runtime that may still dispatch a message event of a
\* socket between its error event and its close event
NextLate == Next \/ \E c \in Conns, p \in Payloads : LateMessage(c, p)

SpecLate == Init /\ [][NextLate]_vars

\* ================================================== the TURN token worker
\* The values of its Env that the code trims, splits or parses are sequences
\* of one-character strings; <<>> is a variable that is unset (or empty: the
\* code reads every one of them through  x || default).

\* a mutant of trim: white space is kept
TrimNothing(s) == s

\* String.prototype.trim, a character at a time
RECURSIVE trimStart(_)
trimStart(s) ==
  IF s # <<>> /\ Head(s) = " " THEN trimStart(Tail(s)) ELSE s

RECURSIVE trimEnd(_)
trimEnd(s) ==
  IF s # <<>> /\ s[Len(s)] = " " THEN trimEnd(SubSeq(s, 1, Len(s) - 1)) ELSE s

trim(s) == trimEnd(trimStart(s))

\* String.prototype.split(","): "" gives one empty element
RECURSIVE split(_)
split(s) ==
  IF \A i \in DOMAIN s : s[i] # ","
  THEN << s >>
  ELSE LET k == CHOOSE i \in DOMAIN s : s[i] = "," /\ \A j \in 1 .. i - 1 : s[j] # ","
       IN  << SubSeq(s, 1, k - 1) >> \o split(SubSeq(s, k + 1, Len(s)))

\* (value || "").split(",").map((v) => v.trim()).filter(Boolean)
splitCsv(value) ==
  LET parts == split(value)
      trimmed == [ i \in DOMAIN parts |-> trim(parts[i]) ]
  IN  SelectSeq(trimmed, LAMBDA v : v # <<>>)

\* the decimal digits and their values
DigitSeq == << "0", "1", "2", "3", "4", "5", "6", "7", "8", "9" >>
DigitVal(ch) == (CHOOSE i \in DOMAIN DigitSeq : DigitSeq[i] = ch) - 1

RECURSIVE digitsPrefix(_)
digitsPrefix(s) ==
  IF s # <<>> /\ Head(s) \in Digits
  THEN << Head(s) >> \o digitsPrefix(Tail(s))
  ELSE <<>>

RECURSIVE numberOf(_)
numberOf(ds) ==
  IF ds = <<>> THEN 0
  ELSE 10 * numberOf(SubSeq(ds, 1, Len(ds) - 1)) + DigitVal(ds[Len(ds)])

\* Number.parseInt(s, 10): leading white space, a sign, then the digits up
\* to the first other character; NaN without a digit
parseInt(s) ==
  LET t == trimStart(s)
      signed == t # <<>> /\ Head(t) \in { "-", "+" }
      ds == digitsPrefix(IF signed THEN Tail(t) ELSE t)
  IN  IF ds = <<>> THEN [ nan |-> TRUE, val |-> 0 ]
      ELSE [ nan |-> FALSE,
             val |-> IF signed /\ Head(t) = "-" THEN 0 - numberOf(ds)
                     ELSE numberOf(ds) ]

\* an integer in a template literal
RECURSIVE digitsOf(_)
digitsOf(n) ==
  IF n < 10 THEN << DigitSeq[n + 1] >>
  ELSE digitsOf(n \div 10) \o << DigitSeq[(n % 10) + 1] >>

NumberToString(n) == IF n < 0 THEN << "-" >> \o digitsOf(0 - n) ELSE digitsOf(n)

\* btoa of the HMAC-SHA1 of message under secret: 28 characters that are a
\* function of the two, kept as the tag and its arguments
hmacSha1Base64(secret, message) ==
  << "hmac-sha1" >> \o secret \o << "," >> \o message

DefaultTtl    == << "3", "6", "0", "0" >>
DefaultPrefix == << "i", "n", "k", "-", "s", "o", "c", "c", "e", "r" >>

\* Math.floor(Date.now() / 1000) + (Number.isFinite(ttl) ? ttl : 3600)
Expires(cfg, now) ==
  LET ttl == parseInt(IF cfg.TOKEN_TTL_SECONDS = <<>> THEN DefaultTtl
                      ELSE cfg.TOKEN_TTL_SECONDS)
  IN  (now \div 1000) + (IF ttl.nan THEN 3600 ELSE ttl.val)

\* the responses of the worker
TurnResponse(status, kind, cors, error, iceServers) ==
  [ status |-> status, kind |-> kind, cors |-> cors, error |-> error,
    iceServers |-> iceServers ]

\* corsHeaders(allowAll ? "*" : allowedOrigin)
corsHeaders(cfg) == IF cfg.ALLOWED_ORIGIN = "" THEN "*" ELSE cfg.ALLOWED_ORIGIN

\* the username and credential of lines 145-157
Credentials(cfg, now) ==
  LET username == trim(cfg.TURN_USERNAME)
      credential == trim(cfg.TURN_CREDENTIAL)
      sharedSecret == trim(cfg.TURN_SHARED_SECRET)
      prefix == trim(IF cfg.TURN_USERNAME_PREFIX = <<>> THEN DefaultPrefix
                     ELSE cfg.TURN_USERNAME_PREFIX)
      derived == NumberToString(Expires(cfg, now)) \o << ":" >> \o prefix
  IN  IF (username = <<>> \/ credential = <<>>) /\ sharedSecret # <<>>
      THEN [ username |-> derived,
             credential |-> hmacSha1Base64(sharedSecret, derived) ]
      ELSE [ username |-> username, credential |-> credential ]

\* the fetch of the TURN token worker for request q under Env cfg
TurnFetchResponse(cfg, q) ==
  LET allowedOrigin == corsHeaders(cfg)
      allowAll == allowedOrigin = "*"
      turnUrls == splitCsv(cfg.TURN_URLS)
      stunUrls == splitCsv(cfg.STUN_URLS)
      cred == Credentials(cfg, q.now)
  IN  IF q.method = "OPTIONS"
      THEN TurnResponse(200, "null", allowedOrigin, "", <<>>)
      ELSE IF q.method # "GET"
      THEN TurnResponse(405, "text", "none", "Method not allowed", <<>>)
      ELSE IF q.path # "/turn"
      THEN TurnResponse(404, "text", "none", "Not found", <<>>)
      ELSE IF ~allowAll /\ q.origin # allowedOrigin
      THEN TurnResponse(403, "text", "none", "Forbidden", <<>>)
      ELSE IF turnUrls = <<>>
      THEN TurnResponse(500, "json", allowedOrigin, "TURN_URLS is empty", <<>>)
      ELSE IF cred.username = <<>> \/ cred.credential = <<>>
      THEN TurnResponse(500, "json", allowedOrigin,
             "Set TURN_USERNAME + TURN_CREDENTIAL or TURN_SHARED_SECRET", <<>>)
      ELSE TurnResponse(200, "json", allowedOrigin, "",
             (IF stunUrls # <<>> THEN << [ urls |-> stunUrls ] >> ELSE <<>>)
             \o << [ urls |-> turnUrls, username |-> cred.username,
                     credential |-> cred.credential ] >>)

\* the Envs the worker is deployed with
TurnEnvs ==
  [ ALLOWED_ORIGIN : AllowedOrigins,
    TURN_URLS : { <<>>, << " ", ",", " " >>, << "t", "a", ",", " ", "t", "b" >> },
    STUN_URLS : { <<>>, << "s", "a" >> },
    TOKEN_TTL_SECONDS : { <<>>, << "6", "0", "s" >>, << "s", "o", "o", "n" >> },
    TURN_USERNAME : { <<>>, << " " >>, << " ", "u" >> },
    TURN_CREDENTIAL : { <<>>, << "p", " " >> },
    TURN_SHARED_SECRET : { <<>>, << " " >>, << "k" >> },
    TURN_USERNAME_PREFIX : { <<>>, << " " >>, << "x", " " >> } ]

\* the requests made to it; now is Date.now() when the request is handled
TurnRequest(method, path, origin, now) ==
  [ method |-> method, path |-> path, origin |-> origin, now |-> now ]

TurnRequests ==
  { TurnRequest("GET", "/turn", SiteOrigin, 7999),
    TurnRequest("GET", "/turn", OtherOrigin, 7999),
    TurnRequest("GET", "/turn", "", 12000),
    TurnRequest("GET", "/room/abcd", SiteOrigin, 7999),
    TurnRequest("GET", "/", "", 7999),
    TurnRequest("POST", "/turn", SiteOrigin, 7999),
    TurnRequest("OPTIONS", "/turn", OtherOrigin, 7999) }

InitTurn ==
  /\ RoomsInit
  /\ env = ""
  /\ \E cfg \in TurnEnvs : turn = [ cfg |-> cfg, req |-> <<>>, res |-> <<>> ]

\* one request to the TURN token worker and its response
TurnFetch ==
  /\ \E q \in TurnRequests :
       turn' = [ turn EXCEPT !.req = q, !.res = TurnFetchResponse(turn.cfg, q) ]
  /\ UNCHANGED << steps, env, host, join, st, self, role, inbox, sent, dropped,
                  last >>

NextTurn == TurnFetch

\* the TURN token worker under every Env of TurnEnvs
SpecTurn == InitTurn /\ [][NextTurn]_vars

\* =================================================================== claims
\* the sockets the fetch of room r accepted
SocketsOf(r) == { c \in Conns : self[c] = r }

\* live: accepted and not closed, that is, the transport is still there
Live(r) == { c \in SocketsOf(r) : st[c] = "open" }

Occupants(r) == { host[r], join[r] } \ { Null }

IsEmpty(r)   == host[r] = Null /\ join[r] = Null
IsPaired(r)  == host[r] # Null /\ join[r] # Null
IsWaiting(r) == ~IsEmpty(r) /\ ~IsPaired(r)

\* the step just taken is a request that reached the fetch of a room
ReachedRoom == last.op = "fetch" /\ last.room # NoRoom
Accepted    == ReachedRoom /\ last.status = 101
Refused     == ReachedRoom /\ last.status = 409
Cleaned     == last.op \in { "error", "close" }
Relayed     == last.op = "message"

\* send() calls of the latest step that put frame f on socket c
SentTo(c, f) == \E i \in DOMAIN last.log : last.log[i] = <<c, f>>

\* ---------------------------------------------------------------------- C1
\* C1: in every reachable state each slot of a room holds at most one socket
\* (Null or one socket of that room, with the role of the slot), no socket is
\* in both slots or in slots of two rooms, and a room never has more than two
\* live sockets: every live socket of the room is in one of its two slots.
C1_SlotsAndLiveSockets ==
  \A r \in Rooms :
    /\ host[r] \in Conns \cup { Null }
    /\ join[r] \in Conns \cup { Null }
    /\ host[r] # Null => host[r] # join[r] /\ self[host[r]] = r /\ role[host[r]] = "host"
    /\ join[r] # Null => self[join[r]] = r /\ role[join[r]] = "join"
    /\ Live(r) \subseteq Occupants(r)
    /\ Cardinality(Live(r)) <= 2
    /\ Cardinality(Occupants(r)) <= 2

\* a room is paired again, with two live sockets, after an earlier socket of
\* it was closed
C1_Witness ==
  \E r \in Rooms :
    /\ IsPaired(r)
    /\ Cardinality(Live(r)) = 2
    /\ \E c \in SocketsOf(r) : st[c] = "closed"

\* ---------------------------------------------------------------------- C2
\* C2: a request that reaches a room whose two slots are occupied is refused
\* with 409 (and only such a request is): no socket is created, no role is
\* assigned, host and join of every room are unchanged and no frame is sent
\* to anybody.
C2_FullRoomRefuses ==
  [][ ReachedRoom' =>
        LET r == last'.room IN
        /\ IsPaired(r) <=> last'.status = 409
        /\ IsPaired(r) =>
             /\ last'.conn = Null
             /\ last'.log = <<>>
             /\ UNCHANGED << host, join, st, self, role, inbox, sent, dropped >> ]_vars

\* a third request found the room full
C2_Witness ==
  /\ Refused
  /\ IsPaired(last.room)
  /\ Cardinality(SocketsOf(last.room)) = 2

\* ---------------------------------------------------------------------- C3
\* C3: a request that reaches a room with both slots empty is accepted (101);
\* the new socket gets role host, is the host of the room afterwards, join
\* stays empty, and its first and only frame so far is ready with role host
\* and the room in upper case.
C3_EmptyRoomGivesHost ==
  [][ ReachedRoom' /\ IsEmpty(last'.room) =>
        LET r == last'.room
            c == last'.conn
        IN  /\ last'.status = 101
            /\ c # Null /\ st[c] = "free" /\ st'[c] = "open"
            /\ host'[r] = c /\ join'[r] = Null
            /\ role'[c] = "host" /\ self'[c] = r
            /\ Range(r) \cap Range(LowerCase) = {}
            /\ last'.log = << <<c, Ready("host", r)>> >>
            /\ inbox'[c] = << Ready("host", r) >> ]_vars

\* a room that is empty again, after its earlier socket was closed, has a
\* new host that got ready/host
C3_Witness ==
  /\ Accepted
  /\ host[last.room] = last.conn
  /\ join[last.room] = Null
  /\ inbox[last.conn] = << Ready("host", last.room) >>
  /\ \E d \in SocketsOf(last.room) : st[d] = "closed"

\* ---------------------------------------------------------------------- C4
\* C4 as stated: a request that reaches a room with exactly one slot occupied,
\* whichever it is, is accepted, the new socket is the join of the room
\* afterwards, it is sent ready with role join, and the room is paired.
C4_Original ==
  [][ ReachedRoom' /\ IsWaiting(last'.room) =>
        LET r == last'.room
            c == last'.conn
        IN  /\ last'.status = 101
            /\ c # Null
            /\ join'[r] = c
            /\ role'[c] = "join"
            /\ inbox'[c][1] = Ready("join", r)
            /\ host'[r] # Null /\ join'[r] # Null ]_vars

\* C4 as amended: a request that reaches a room with exactly one slot occupied
\* is accepted and the new socket takes the empty slot: join, with ready/join,
\* when the host slot is the occupied one, and host, with ready/host, when the
\* join slot is the occupied one; the other slot keeps its socket and the room
\* is paired.
C4_WaitingRoomFillsEmptySlot ==
  [][ ReachedRoom' /\ IsWaiting(last'.room) =>
        LET r == last'.room
            c == last'.conn
            rl == IF host[r] # Null THEN "join" ELSE "host"
        IN  /\ last'.status = 101
            /\ c # Null /\ st[c] = "free" /\ st'[c] = "open"
            /\ role'[c] = rl /\ self'[c] = r
            /\ host'[r] = (IF rl = "host" THEN c ELSE host[r])
            /\ join'[r] = (IF rl = "join" THEN c ELSE join[r])
            /\ inbox'[c][1] = Ready(rl, r)
            /\ last'.log[1] = <<c, Ready(rl, r)>>
            /\ host'[r] # Null /\ join'[r] # Null ]_vars

\* the host left, the joiner stayed, and the next socket became the host
C4_Witness ==
  /\ Accepted
  /\ role[last.conn] = "host"
  /\ host[last.room] = last.conn
  /\ join[last.room] # Null
  /\ inbox[last.conn][1] = Ready("host", last.room)

\* ---------------------------------------------------------------------- C5
\* C5: after an accepted request that leaves the room paired, the send()
\* calls of that request are ready to the new socket, then peer/joined to the
\* host, then peer/joined to the join, so the new socket has received ready
\* and then peer/joined, and the other occupant, when its transport is there,
\* has peer/joined as its latest frame; an accepted request that leaves one
\* occupant sends ready and nothing else.
C5_JoinedWhenPaired ==
  Accepted =>
    LET r == last.room
        c == last.conn
    IN  IF IsPaired(r)
        THEN /\ last.log = << <<c, Ready(role[c], r)>>,
                              <<host[r], PeerJoined>>, <<join[r], PeerJoined>> >>
             /\ inbox[c] = << Ready(role[c], r), PeerJoined >>
             /\ \A d \in Occupants(r) \ { c } :
                  st[d] = "open" =>
                    /\ inbox[d] # <<>>
                    /\ inbox[d][Len(inbox[d])] = PeerJoined
        ELSE /\ last.log = << <<c, Ready(role[c], r)>> >>
             /\ \A d \in Conns : ~SentTo(d, PeerJoined)

\* the second socket of a room got ready and then peer/joined, and the host
\* got peer/joined after its own ready
C5_Witness ==
  /\ Accepted
  /\ IsPaired(last.room)
  /\ role[last.conn] = "join"
  /\ inbox[last.conn] = << Ready("join", last.room), PeerJoined >>
  /\ inbox[host[last.room]] = << Ready("host", last.room), PeerJoined >>

\* the socket in the slot of the other role than rl, in room r
OtherSlot(rl, r) == IF rl = "host" THEN join[r] ELSE host[r]

\* the slot of role rl, in room r
OwnSlot(rl, r) == IF rl = "host" THEN host[r] ELSE join[r]

\* the same slots, and the send() calls, after the step
OtherSlotNext(rl, r) == IF rl = "host" THEN join'[r] ELSE host'[r]
OwnSlotNext(rl, r)   == IF rl = "host" THEN host'[r] ELSE join'[r]
SentToNext(c, f)     == \E i \in DOMAIN last'.log : last'.log[i] = <<c, f>>

\* c is the occupant of the slot of its role
Occupies(c) == self[c] # NoRoom /\ OwnSlot(role[c], self[c]) = c

\* frame x is content and framing of client frame m
SameFrame(x, m) == x.frame = m.frame /\ x.data = m.data

\* ---------------------------------------------------------------------- C6
\* C6: when the message event of a slot's occupant comes while the other slot
\* is occupied, no socket but the other occupant gets a frame, and the other
\* occupant, when its transport is there, gets one frame more: the client's
\* frame, with the same framing (text or binary) and the same content.
C6_ForwardedUnmodified ==
  [][ Relayed' =>
        LET c == last'.conn
            d == OtherSlot(role[c], self[c])
            m == sent'[Len(sent')]
        IN  Occupies(c) /\ d # Null =>
              /\ \A e \in Conns \ { d } : inbox'[e] = inbox[e]
              /\ st[d] = "open" =>
                   /\ Len(inbox'[d]) = Len(inbox[d]) + 1
                   /\ SubSeq(inbox'[d], 1, Len(inbox[d])) = inbox[d]
                   /\ SameFrame(inbox'[d][Len(inbox'[d])], m) ]_vars

\* ---------------------------------------------------------------------- C7
\* C7: in every inbox the forwarded frames of one sender are client frames of
\* that sender and stand in the order in which that sender sent them (their
\* indices in sent grow strictly along the inbox), so what a receiver got
\* from a sender is a subsequence of what that sender sent.
C7_SenderOrderKept ==
  \A d \in Conns :
    /\ \A i \in DOMAIN inbox[d] :
         inbox[d][i].from # Null =>
           /\ inbox[d][i].seq \in DOMAIN sent
           /\ sent[inbox[d][i].seq].from = inbox[d][i].from
    /\ \A i, j \in DOMAIN inbox[d] :
         /\ i < j
         /\ inbox[d][i].from # Null
         /\ inbox[d][i].from = inbox[d][j].from
         => inbox[d][i].seq < inbox[d][j].seq

\* a receiver holds two forwarded frames of the same sender
C7_Witness ==
  \E d \in Conns : \E i, j \in DOMAIN inbox[d] :
    /\ i < j
    /\ inbox[d][i].from # Null
    /\ inbox[d][i].from = inbox[d][j].from
    /\ inbox[d][i].seq = 1 /\ inbox[d][j].seq = 2

\* ---------------------------------------------------------------------- C8
\* C8: when the message event of a slot's occupant comes while the other slot
\* is empty, nothing changes but the record of the frame: no slot, socket or
\* inbox changes and no send() is called (nothing goes back to the sender);
\* and no inbox ever holds a frame that found the other slot empty, whoever
\* takes that slot later.
C8_DroppedWhenAlone ==
  /\ [][ Relayed' =>
           LET c == last'.conn
           IN  Occupies(c) /\ OtherSlot(role[c], self[c]) = Null =>
                 /\ last'.log = <<>>
                 /\ dropped' = dropped \cup { Len(sent') }
                 /\ UNCHANGED << host, join, st, self, role, inbox >> ]_vars
  /\ [](\A d \in Conns : \A i \in DOMAIN inbox[d] :
          inbox[d][i].from # Null => inbox[d][i].seq \notin dropped)

\* a frame found the other slot empty, then a socket took that slot and got
\* its own frames, and the sender is still there
C8_Witness ==
  \E k \in dropped :
    LET c == sent[k].from
        d == OtherSlot(role[c], self[c])
    IN  /\ Occupies(c)
        /\ st[c] = "open"
        /\ d # Null
        /\ st[d] = "open"
        /\ inbox[d] = << Ready(role[d], self[d]), PeerJoined >>

\* ---------------------------------------------------------------------- C9
\* C9: (a) the close or error event of a slot's occupant empties that slot
\* and calls send() once, with peer/left, for the socket of the other slot
\* when there is one (it is not called otherwise), and that socket gets the
\* frame when its transport is there; (b) the next request that reaches the
\* room while the other socket is still in its slot is accepted, the new
\* socket gets the role of the empty slot and that slot, and peer/joined is
\* sent to both occupants.
C9_LeaveThenRejoin ==
  [][ /\ Cleaned' /\ Occupies(last'.conn) =>
           LET c == last'.conn
               r == self[c]
               d == OtherSlot(role[c], r)
           IN  /\ OwnSlotNext(role[c], r) = Null
               /\ last'.log = IF d = Null THEN <<>> ELSE << <<d, PeerLeft>> >>
               /\ d # Null /\ st[d] = "open" => inbox'[d] = Append(inbox[d], PeerLeft)
      /\ ReachedRoom' /\ IsWaiting(last'.room) =>
           LET r == last'.room
               c == last'.conn
               rl == IF host[r] = Null THEN "host" ELSE "join"
               d == OtherSlot(rl, r)
           IN  /\ last'.status = 101
               /\ role'[c] = rl
               /\ OwnSlotNext(rl, r) = c
               /\ OtherSlotNext(rl, r) = d
               /\ SentToNext(c, PeerJoined) /\ SentToNext(d, PeerJoined)
               /\ st[d] = "open" => inbox'[d] = Append(inbox[d], PeerJoined) ]_vars

\* the host left, the joiner was told, and a new host re-paired the room:
\* the joiner got peer/left and then peer/joined
C9_Witness ==
  /\ Accepted
  /\ IsPaired(last.room)
  /\ role[last.conn] = "host"
  /\ inbox[last.conn] = << Ready("host", last.room), PeerJoined >>
  /\ LET d == join[last.room]
         n == Len(inbox[d])
     IN  /\ n >= 2
         /\ inbox[d][n - 1] = PeerLeft
         /\ inbox[d][n] = PeerJoined

\* --------------------------------------------------------------------- C10
\* C10: a close or error event of socket c changes no slot but the one of c's
\* role in c's room, and that one only when c is in it (it becomes empty);
\* the other slot holds the same socket, no role changes, and the room is
\* waiting when the other slot is occupied and empty when it is not.
C10_DisconnectFrame ==
  [][ Cleaned' =>
        LET c == last'.conn
            r == self[c]
        IN  /\ OtherSlotNext(role[c], r) = OtherSlot(role[c], r)
            /\ OwnSlotNext(role[c], r) =
                 (IF Occupies(c) THEN Null ELSE OwnSlot(role[c], r))
            /\ \A q \in Rooms \ { r } : host'[q] = host[q] /\ join'[q] = join[q]
            /\ role' = role /\ self' = self
            /\ Occupies(c) =>
                 IF OtherSlot(role[c], r) # Null
                 THEN (host'[r] = Null) # (join'[r] = Null)
                 ELSE host'[r] = Null /\ join'[r] = Null ]_vars

\* the host left a paired room: the joiner is still the join, alone
C10_Witness ==
  /\ Cleaned
  /\ role[last.conn] = "host"
  /\ host[last.room] = Null
  /\ join[last.room] # Null
  /\ role[join[last.room]] = "join"
  /\ st[join[last.room]] = "open"
  /\ SentTo(join[last.room], PeerLeft)

\* --------------------------------------------------------------------- C11
\* a frame of the room that is a ready message
IsReady(f) == f.from = Null /\ f.data[1] = "ready"

\* C11: an accepted request calls send() with ready once, for the new socket
\* and before any other send(), and no other step sends a ready; a socket that
\* is open when it is accepted has ready as its first frame; frames are only
\* added at the end of an inbox; so in every state the first frame a socket
\* got is the ready of its role and room, with no peer/joined, peer/left or
\* forwarded frame before it, and no later frame of it is a ready.
C11_ReadyOnceAndFirst ==
  /\ [][ /\ Accepted' =>
              LET c == last'.conn
              IN  /\ last'.log[1] = <<c, Ready(role'[c], last'.room)>>
                  /\ \A i \in DOMAIN last'.log : i > 1 => ~IsReady(last'.log[i][2])
                  /\ st'[c] = "open" => inbox'[c][1] = Ready(role'[c], last'.room)
         /\ ~Accepted' => \A i \in DOMAIN last'.log : ~IsReady(last'.log[i][2])
         /\ \A c \in Conns :
              /\ Len(inbox[c]) <= Len(inbox'[c])
              /\ SubSeq(inbox'[c], 1, Len(inbox[c])) = inbox[c] ]_vars
  /\ [](\A c \in Conns :
          /\ st[c] = "free" => inbox[c] = <<>>
          /\ inbox[c] # <<>> => inbox[c][1] = Ready(role[c], self[c])
          /\ \A i \in DOMAIN inbox[c] : i > 1 => ~IsReady(inbox[c][i]))

\* a host got ready, then peer/joined, then a frame of the joiner, then
\* peer/left
C11_Witness ==
  \E c \in Conns :
    /\ Len(inbox[c]) = 4
    /\ inbox[c][1] = Ready("host", self[c])
    /\ inbox[c][2] = PeerJoined
    /\ inbox[c][3].from # Null
    /\ inbox[c][4] = PeerLeft

\* --------------------------------------------------------------------- C12
\* the path is /room/{code} with a code of 4 to 20 characters of [A-Za-z0-9_-]
IsRoomPath(path) ==
  \E n \in 4 .. 20 :
    /\ Len(path) = Len(RoomPrefix) + n
    /\ SubSeq(path, 1, Len(RoomPrefix)) = RoomPrefix
    /\ \A i \in Len(RoomPrefix) + 1 .. Len(path) : path[i] \in CodeChars

\* the Upgrade header is websocket (a header value: in any letter case)
IsWebsocket(upgrade) == toLowerCase(upgrade) = UpgradeWs

\* the two, and the upper-case form of the code, for the requests of the model
IsRoomPathOf  == [ p \in Paths |-> IsRoomPath(p) ]
IsWebsocketOf == [ u \in Upgrades |-> IsWebsocket(u) ]
UpperCodeOf ==
  [ p \in Paths |-> toUpperCase(SubSeq(p, Len(RoomPrefix) + 1, Len(p))) ]

\* the rejection the three checks give request q, in their order; 0: none
Rejection(q) ==
  IF ~IsRoomPathOf[q.path] THEN 404
  ELSE IF ~IsWebsocketOf[q.upgrade] THEN 426
  ELSE IF env # "" /\ env # "*" /\ q.origin # env THEN 403
  ELSE 0

\* the step is the dispatcher's fetch for request q
FetchOf(q) == Fetch(q.path, q.upgrade, q.origin, TRUE)

\* the step is a rejection with status code: it reached no room, created no
\* socket, sent nothing and changed no slot, socket or inbox
RejectedWith(code) ==
  /\ last'.status = code
  /\ last'.room = NoRoom /\ last'.conn = Null /\ last'.log = <<>>
  /\ UNCHANGED << host, join, st, self, role, inbox, sent, dropped >>

\* the step handed request q to the room of its code, which accepted or
\* refused it
HandedOn(q) ==
  /\ last'.room = UpperCodeOf[q.path]
  /\ last'.room \in Rooms
  /\ last'.status \in { 101, 409 }

\* C12 as stated: every request is rejected with 404 when its path is not a
\* room path, else with 426 when its Upgrade header is not websocket, else
\* with 403 when the allow-list is not the wildcard and Origin differs from
\* it; a rejected request reaches no room and changes nothing; every other
\* request is handed to the room of its code.
C12_Original ==
  [][ last'.op = "fetch" =>
        \A q \in Requests :
          FetchOf(q) =>
            IF Rejection(q) # 0 THEN RejectedWith(Rejection(q)) ELSE HandedOn(q) ]_vars

\* C12 as amended: the same for every request but the one for /health, which
\* is answered 200 and, like a rejected one, reaches no room and changes
\* nothing.
C12_DispatcherChecksInOrder ==
  [][ last'.op = "fetch" =>
        \A q \in Requests :
          FetchOf(q) =>
            IF q.path = PathHealth THEN RejectedWith(200)
            ELSE IF Rejection(q) # 0 THEN RejectedWith(Rejection(q))
            ELSE HandedOn(q) ]_vars

\* a request was rejected for its origin while a room was paired
C12_Witness ==
  /\ last.op = "fetch"
  /\ last.status = 403
  /\ env = SiteOrigin
  /\ \E r \in Rooms : IsPaired(r)

\* --------------------------------------------------------------------- C13
\* the code of a room path
CodeIn(path) == SubSeq(path, Len(RoomPrefix) + 1, Len(path))

\* two codes differ in letter case only, or not at all
SameButCase(a, b) == toLowerCase(a) = toLowerCase(b)

\* C13: an accepted request is in the session named by the upper-case form
\* of the code in its path, and the room of the ready sent for it is that
\* upper-case form (it has no lower-case letter); and of two requests
\* accepted one after the other, the second is in the session of the first
\* exactly when their codes differ in letter case only: then the two are the
\* occupants of that session, each in its own slot, and otherwise the slots
\* of the first one's session are left as they were.
C13_CodesIgnoreCase ==
  [][ Accepted' =>
        LET c == last'.conn
            code == CodeIn(last'.path)
        IN  /\ IsRoomPath(last'.path)
            /\ last'.room = toUpperCase(code)
            /\ self'[c] = toUpperCase(code)
            /\ Range(last'.room) \cap Range(LowerCase) = {}
            /\ last'.log[1] = <<c, Ready(role'[c], toUpperCase(code))>>
            /\ inbox'[c][1] = Ready(role'[c], toUpperCase(code))
            /\ Accepted =>
                 LET b == last.conn
                     r == self[b]
                 IN  IF SameButCase(CodeIn(last.path), code)
                     THEN /\ self'[c] = r
                          /\ { host'[r], join'[r] } = { b, c }
                          /\ inbox'[b][Len(inbox'[b])] = PeerJoined
                     ELSE /\ self'[c] # r
                          /\ host'[r] = host[r] /\ join'[r] = join[r]
                          /\ inbox'[b] = inbox[b] ]_vars

\* the request for /room/abcd was accepted into the session ABCD next to a
\* host, while the session WX_9- has an occupant of its own
C13_Witness ==
  /\ Accepted
  /\ last.path = PathLower
  /\ last.room = <<"A", "B", "C", "D">>
  /\ join[last.room] = last.conn
  /\ host[last.room] # Null
  /\ inbox[last.conn] = << Ready("join", <<"A", "B", "C", "D">>), PeerJoined >>
  /\ \E r \in Rooms \ { last.room } : ~IsEmpty(r)

\* --------------------------------------------------------------------- C14
\* C14: a step addressed to a room (a request handed to it, a frame, a lost
\* transport, an error or close event of one of its sockets) changes no slot
\* of any other room, calls send() for no socket of another room, and leaves
\* the sockets of every other room and what they received as they were; a
\* step addressed to no room changes no room at all.
C14_RoomsIndependent ==
  [][ \A y \in Rooms \ { last'.room } :
        /\ host'[y] = host[y]
        /\ join'[y] = join[y]
        /\ \A d \in Conns :
             self[d] = y \/ self'[d] = y =>
               /\ self'[d] = self[d]
               /\ role'[d] = role[d]
               /\ st'[d] = st[d]
               /\ inbox'[d] = inbox[d]
               /\ \A i \in DOMAIN last'.log : last'.log[i][1] # d ]_vars

\* a frame was forwarded in a paired room while another room had a host that
\* got nothing but its ready
C14_Witness ==
  /\ Relayed
  /\ last.log # <<>>
  /\ IsPaired(last.room)
  /\ \E y \in Rooms \ { last.room } :
       /\ host[y] # Null
       /\ st[host[y]] = "open"
       /\ inbox[host[y]] = << Ready("host", y) >>

\* --------------------------------------------------------------------- C15
\* the client frames (by index in sent) that are in no inbox although they
\* found the other slot occupied: their send() threw
Lost ==
  { k \in DOMAIN sent \ dropped :
      \A d \in Conns : \A i \in DOMAIN inbox[d] : inbox[d][i].seq # k }

\* C15: when a send() of a forwarded frame, of peer/joined or of peer/left
\* is made for a peer whose transport is gone (it is closing or errored), the
\* peer gets nothing, send() was called for it once, and the peer stays in
\* its slot; the step has the effects it has otherwise and no others: a frame
\* step changes no slot, socket or inbox and calls send() for nobody else (the
\* sender gets nothing), an accepted request leaves the new socket and the
\* peer as the two occupants and the new socket with ready and peer/joined, a
\* close or error event empties the slot of its own socket when that socket
\* is in it, changes no slot otherwise, and sends nothing to its socket; and
\* a client frame is put into an inbox only by the step of its own message
\* event, never by a later one.
C15_SendFailureDiscarded ==
  [][ /\ \A i \in DOMAIN last'.log :
           LET d == last'.log[i][1]
               f == last'.log[i][2]
               c == last'.conn
               r == last'.room
           IN  d # c /\ st'[d] # "open" =>
                 /\ inbox'[d] = inbox[d]
                 /\ st'[d] = st[d]
                 /\ Cardinality({ j \in DOMAIN last'.log : last'.log[j][1] = d }) = 1
                 /\ self[d] = r
                 /\ OwnSlot(role[d], r) = d
                 /\ OwnSlotNext(role[d], r) = d
                 /\ Relayed' =>
                      /\ last'.log = << <<d, f>> >>
                      /\ UNCHANGED << host, join, st, self, role, inbox, dropped >>
                 /\ Accepted' =>
                      /\ f = PeerJoined
                      /\ { host'[r], join'[r] } = { c, d }
                      /\ inbox'[c] = << Ready(role'[c], r), PeerJoined >>
                 /\ Cleaned' =>
                      /\ f = PeerLeft
                      /\ OwnSlotNext(role[c], r) =
                           (IF Occupies(c) THEN Null ELSE OwnSlot(role[c], r))
                      /\ inbox'[c] = inbox[c]
                      /\ last'.log = << <<d, f>> >>
      /\ \A d \in Conns : \A i \in DOMAIN inbox'[d] :
           i > Len(inbox[d]) /\ inbox'[d][i].from # Null =>
             Relayed' /\ inbox'[d][i].seq = Len(sent') ]_vars

\* a frame was lost on a peer whose transport was gone, and afterwards the
\* close event of that peer was handled as ever: its slot is empty and the
\* sender, still in its own slot, got peer/left
C15_Witness ==
  \E k \in Lost :
    LET c == sent[k].from
    IN  /\ Cleaned
        /\ last.conn # c
        /\ last.room = self[c]
        /\ Occupies(c)
        /\ OtherSlot(role[c], self[c]) = Null
        /\ st[c] = "open"
        /\ inbox[c][Len(inbox[c])] = PeerLeft

\* --------------------------------------------------------------------- C16
\* a value of the Env is configured: it has a character that is not a space
Configured(v) == \E i \in DOMAIN v : v[i] # " "

\* x is value v without the spaces around it
Surrounded(v, x) ==
  IF ~Configured(v) THEN x = <<>>
  ELSE /\ x # <<>> /\ x[1] # " " /\ x[Len(x)] # " "
       /\ \E a \in 0 .. Len(v) - Len(x) :
            /\ SubSeq(v, a + 1, a + Len(x)) = x
            /\ \A i \in (1 .. a) \cup (a + Len(x) + 1 .. Len(v)) : v[i] = " "

\* the TURN URL list has an element
HasTurnUrl(cfg) == \E i \in DOMAIN cfg.TURN_URLS : cfg.TURN_URLS[i] \notin { " ", "," }

\* the origin of request q is allowed
OriginAllowed(cfg, q) ==
  cfg.ALLOWED_ORIGIN \in { "", "*" } \/ q.origin = cfg.ALLOWED_ORIGIN

StaticConfigured(cfg) == Configured(cfg.TURN_USERNAME) /\ Configured(cfg.TURN_CREDENTIAL)

\* the response is a success body: 200 with the JSON of the ICE servers
SuccessBody(res) == res.status = 200 /\ res.kind = "json"

\* the entries of a body that have a username: the TURN entries
TurnEntries(res) ==
  { i \in DOMAIN res.iceServers : "username" \in DOMAIN res.iceServers[i] }

\* C16: a response of the TURN token worker is a success body only when the
\* request is GET /turn from an allowed origin and the TURN URL list has an
\* element; a success body has one TURN entry, its last, with those URLs and
\* a username and a credential that are not empty: the static values without
\* the spaces around them when both are configured, and otherwise the
\* username "{expires}:{prefix}" with the HMAC of it under the shared secret;
\* and such a request is answered 500, with no ICE servers, when neither the
\* static pair nor the shared secret is configured.
C16_TurnCredentials ==
  turn.res # <<>> =>
    LET cfg == turn.cfg
        q == turn.req
        res == turn.res
        asked == /\ q.method = "GET" /\ q.path = "/turn"
                 /\ OriginAllowed(cfg, q) /\ HasTurnUrl(cfg)
    IN  /\ SuccessBody(res) => asked
        /\ ~SuccessBody(res) => res.iceServers = <<>>
        /\ SuccessBody(res) =>
             LET n == Len(res.iceServers)
                 e == res.iceServers[n]
             IN  /\ TurnEntries(res) = { n }
                 /\ e.urls # <<>>
                 /\ \A i \in DOMAIN e.urls : Configured(e.urls[i])
                 /\ e.username # <<>> /\ e.credential # <<>>
                 /\ IF StaticConfigured(cfg)
                    THEN /\ Surrounded(cfg.TURN_USERNAME, e.username)
                         /\ Surrounded(cfg.TURN_CREDENTIAL, e.credential)
                    ELSE /\ Configured(cfg.TURN_SHARED_SECRET)
                         /\ \E prefix \in { <<>>, << "x" >>, DefaultPrefix } :
                              /\ Surrounded(IF cfg.TURN_USERNAME_PREFIX = <<>>
                                            THEN DefaultPrefix
                                            ELSE cfg.TURN_USERNAME_PREFIX, prefix)
                              /\ e.username =
                                   NumberToString(Expires(cfg, q.now))
                                   \o << ":" >> \o prefix
                         /\ \E secret \in { << "k" >> } :
                              /\ Surrounded(cfg.TURN_SHARED_SECRET, secret)
                              /\ e.credential = hmacSha1Base64(secret, e.username)
        /\ asked /\ ~StaticConfigured(cfg) /\ ~Configured(cfg.TURN_SHARED_SECRET) =>
             res.status = 500 /\ res.kind = "json" /\ res.error # ""
        /\ asked /\ (StaticConfigured(cfg) \/ Configured(cfg.TURN_SHARED_SECRET)) =>
             SuccessBody(res)

\* a username without a credential is configured next to a shared secret:
\* the body has the STUN entry and the derived pair, 7 + 60 seconds, prefix x
C16_Witness ==
  /\ turn.res # <<>>
  /\ SuccessBody(turn.res)
  /\ Configured(turn.cfg.TURN_USERNAME)
  /\ ~Configured(turn.cfg.TURN_CREDENTIAL)
  /\ Len(turn.res.iceServers) = 2
  /\ turn.res.iceServers[2].username = << "6", "7", ":", "x" >>
  /\ turn.res.iceServers[2].credential =
       << "hmac-sha1", "k", ",", "6", "7", ":", "x" >>

\* --------------------------------------------------------------------- C17
\* C17: every send() of peer/left is made by a step that empties the other
\* slot of the socket it is sent to (that slot is occupied before the step
\* and empty after it), so one departure gives the remaining occupant one
\* peer/left, also when the error and then the close event of the departed
\* socket are handled, and no occupant is sent peer/left while the other slot
\* holds a socket.
C17_PeerLeftOnlyOnVacate ==
  [][ \A i \in DOMAIN last'.log :
        LET d == last'.log[i][1]
        IN  last'.log[i][2] = PeerLeft =>
              /\ OtherSlot(role[d], self[d]) # Null
              /\ OtherSlotNext(role[d], self[d]) = Null ]_vars

\* --------------------------------------------------------------------- C18
\* C18: a close or error event of a socket that is not in the slot of its
\* role changes no slot of any room; so when a newer socket has taken that
\* slot, it is still in it after the event.
C18_LateCleanupEvictsNobody ==
  [][ Cleaned' /\ ~Occupies(last'.conn) =>
        LET c == last'.conn
            y == OwnSlot(role[c], self[c])
        IN  /\ host' = host
            /\ join' = join
            /\ y # Null => y # c /\ OwnSlotNext(role[c], self[c]) = y ]_vars

\* the close event of a socket came after a newer, live socket had taken its
\* slot, and the newer socket is still there
C18_Witness ==
  /\ Cleaned
  /\ LET c == last.conn
         y == OwnSlot(role[c], self[c])
     IN  /\ y # Null
         /\ y > c
         /\ role[y] = role[c]
         /\ st[y] = "open"

\* --------------------------------------------------------------------- C19
\* C19: a message event of a socket that is not in the slot of its role (the
\* slot was emptied by its error event, or a newer socket has taken it) calls
\* send() for nobody and puts nothing into any inbox.
C19_OnlyOccupantsForwarded ==
  [][ Relayed' /\ ~Occupies(last'.conn) =>
        /\ last'.log = <<>>
        /\ inbox' = inbox ]_vars

\* --------------------------------------------------------------------- C20
\* the step is an accepted request whose ready could not be sent
ReadyFailed == Accepted' /\ st'[last'.conn] # "open"

\* C20: when the send() of ready throws for a just-accepted socket, the slot
\* of the role it was given is empty after the request, as it was before,
\* the other slot holds what it held, the socket has received nothing, send()
\* is called with peer/joined for nobody and no inbox gets a peer/joined.
C20_ReadyFailureLeavesNoTrace ==
  [][ ReadyFailed =>
        LET c == last'.conn
            r == last'.room
            rl == role'[c]
        IN  /\ last'.log[1] = <<c, Ready(rl, r)>>
            /\ OwnSlot(rl, r) = Null
            /\ OwnSlotNext(rl, r) = Null
            /\ OtherSlotNext(rl, r) = OtherSlot(rl, r)
            /\ \A q \in Rooms \ { r } : host'[q] = host[q] /\ join'[q] = join[q]
            /\ inbox'[c] = <<>>
            /\ \A d \in Conns : ~SentToNext(d, PeerJoined)
            /\ \A d \in Conns : \A i \in DOMAIN inbox'[d] :
                 i > Len(inbox[d]) => inbox'[d][i] # PeerJoined ]_vars

\* the ready of a second socket could not be sent: the join slot is empty,
\* the host is in its slot and was never sent peer/joined
C20_Witness ==
  /\ Accepted
  /\ st[last.conn] # "open"
  /\ role[last.conn] = "join"
  /\ join[last.room] = Null
  /\ host[last.room] # Null
  /\ st[host[last.room]] = "open"
  /\ \A i \in DOMAIN inbox[host[last.room]] : inbox[host[last.room]][i] # PeerJoined

====
